---- MODULE Spec2Model ----
(***************************************************************************)
(* A model of the accelira load-test engine: the executor (cmd/main.go),   *)
(* the runtime pool and virtual users (vmhandler), the instrumented HTTP   *)
(* client (httpclient), the record queue (metrics.SendMetrics) and the     *)
(* aggregator (metricsprocessor).                                          *)
(*                                                                         *)
(* Strings that the code builds with fmt.Sprintf("%s %s", a, b) are        *)
(* modelled as the sequence of their space-separated words, so that        *)
(* "GET /a" is <<"GET", "/a">>, "group: g" is <<"group:", "g">> and the    *)
(* empty string is <<"">>.  Joining with one space is then \o.             *)
(*                                                                         *)
(* Durations are counted in half milliseconds, so that a strictly positive *)
(* latency below one millisecond exists in the model.                      *)
(***************************************************************************)
EXTENDS Integers, Sequences, FiniteSets, Bags, TLC

VARIABLES
    config,       \* moduleloader.Config captured by the config probe
    pool,         \* VMPool.pool: the buffered channel of idle runtimes
    vuPc,         \* position of each RunScriptWithPool goroutine
    vm,           \* the runtime each virtual user holds (0: none)
    calls,        \* ExecuteExportedFunction calls made by each virtual user
    remaining,    \* endTime - time.Now() of each virtual user, floored at 0
    topFailed,    \* vm.RunScript returned an error in this virtual user
    configWrites, \* writes of the shared Config made by each virtual user
    lastResp,     \* the response object the script holds (resp, err)
    queue,        \* metricsChannel: records accepted and not yet received
    closed,       \* close(metricsChannel) has happened
    MetricsMap,   \* metricsprocessor.MetricsMap
    aggPc,        \* GatherMetrics goroutine: "running" or "done"
    mainPc,       \* position of main / executeScript / executeTestScripts
    spawned,      \* loop variable i of executeTestScripts
    waitGroup,    \* counter of executeTestScripts' sync.WaitGroup
    sigPc,        \* position of the signal-handler goroutine
    exited,       \* the process has ended (os.Exit or return from main)
    reportCalls,  \* calls of report.GenerateReport so far
    accepted,     \* records taken by the channel (first select case)
    dropped,      \* records dropped by SendMetrics (default case)
    lastCall,     \* the last DoRequest call: its input and its result
    mergedLog,    \* the records processEndpointMetric has merged, in order
    logged,       \* "Error executing ... export function" lines printed
    pendingAtSignal, \* records in the queue at the interrupt, not yet received
    dropLines,    \* "Channel is full, dropping metrics" lines, per virtual user
    rampGap,      \* microseconds from the previous spawn to the latest one
    module,       \* the shape of module.exports the script has left
    entry,        \* the last ExecuteExportedFunction: its module and result
    lastHttpRequest \* the last HttpRequest call: its input and its result

vars == <<config, pool, vuPc, vm, calls, remaining, topFailed, configWrites, lastResp,
          queue, closed, MetricsMap, aggPc, mainPc, spawned, waitGroup,
          sigPc, exited, reportCalls, accepted, dropped, lastCall, mergedLog,
          logged, pendingAtSignal, dropLines, rampGap, module, entry,
          lastHttpRequest>>

-----------------------------------------------------------------------------
(* Bounds of the model *)

MaxUsers == 2

MaxIterations == 1

MaxDuration == 1

MaxCalls == 2

MaxMerged == 3

MaxProbeSends == 2

MaxSends == 7

(* Program constants *)

QueueFactor == 5

StatusServiceUnavailable == 503

StatusNetworkAuthenticationRequired == 511

StatusRequestTimeout == 408

StatusInternalServerError == 500

MillisPerSecond == 1000

MicrosPerMilli == 1000

-----------------------------------------------------------------------------
(* Values *)

Methods == {<<"GET">>, <<"POST">>}

URLs == {<<"/a">>, <<"/b">>}

ServerStatuses == {200, 404}

ExpectedStatus == {200}

GroupNames == {<<"g">>}

NoValue == [none |-> TRUE]

EmptyMap == [s \in {} |-> 0]

RECURSIVE SumOver(_, _)
SumOver(f, S) ==
    IF S = {} THEN 0
    ELSE LET x == CHOOSE y \in S : TRUE
         IN  f[x] + SumOver(f, S \ {x})

SumValues(f) == SumOver(f, DOMAIN f)

Milliseconds(d) == d \div 2

Sprintf2(a, b) == a \o b

ZeroHttpResponse ==
    [Body |-> <<"">>, StatusCode |-> 0, URL |-> <<"">>, Method |-> <<"">>,
     Duration |-> 0, TCPHandshakeLatency |-> 0, TLSHandshakeLatency |-> 0,
     DNSLookupLatency |-> 0]

-----------------------------------------------------------------------------
(* metrics: the record type and its constructors *)

EndpointMetrics(key, type, url, method, counts, rt, tcp, tls, dns, check, recv, sent, errors) ==
    [key |-> key, Type |-> type, URL |-> url, Method |-> method,
     StatusCodeCounts |-> counts, ResponseTime |-> rt,
     TCPHandshakeLatency |-> tcp, TLSHandshakeLatency |-> tls,
     DNSLookupLatency |-> dns, CheckResult |-> check,
     BytesReceived |-> recv, BytesSent |-> sent, Errors |-> errors]

collectMetricsWithLatencies(url, method, errors, bytesReceived, bytesSent, statusCode, duration, tcp, tls, dns) ==
    EndpointMetrics(Sprintf2(method, url), "HTTP_REQUEST", url, method,
                    (statusCode :> 1), duration, tcp, tls, dns, FALSE,
                    bytesReceived, bytesSent, errors)

CollectGroupMetrics(name, duration) ==
    EndpointMetrics(Sprintf2(<<"group:">>, name), "GROUP", name, <<"GROUP">>,
                    EmptyMap, duration, 0, 0, 0, FALSE, 0, 0, 0)

CollectErrorMetrics(name, result) ==
    EndpointMetrics(name, "ERROR", name, <<"ERROR">>,
                    EmptyMap, 0, 0, 0, 0, result, 0, 0, 0)

SendMetricsDropsOldest(q, capacity, isNil, m) ==
    IF isNil THEN [queue |-> q, sent |-> FALSE, printed |-> 1]
    ELSE IF Len(q) < capacity
    THEN [queue |-> Append(q, m), sent |-> TRUE, printed |-> 0]
    ELSE IF capacity = 0 THEN [queue |-> q, sent |-> FALSE, printed |-> 1]
    ELSE [queue |-> Append(Tail(q), m), sent |-> TRUE, printed |-> 0]

SendMetricsPrepends(q, capacity, isNil, m) ==
    IF ~isNil /\ Len(q) < capacity
    THEN [queue |-> <<m>> \o q, sent |-> TRUE, printed |-> 0]
    ELSE [queue |-> q, sent |-> FALSE, printed |-> 1]

SendMetricsSilent(q, capacity, isNil, m) ==
    IF ~isNil /\ Len(q) < capacity
    THEN [queue |-> Append(q, m), sent |-> TRUE, printed |-> 0]
    ELSE [queue |-> q, sent |-> FALSE, printed |-> 0]

\* select { case metricsChan <- metrics: default: fmt.Println(...) }: the
\* record is taken when the buffered channel has room and is dropped
\* otherwise, and every drop prints one line; a send on a nil channel is
\* never ready.
SendMetrics(q, capacity, isNil, m) ==
    IF ~isNil /\ Len(q) < capacity
    THEN [queue |-> Append(q, m), sent |-> TRUE, printed |-> 0]
    ELSE [queue |-> q, sent |-> FALSE, printed |-> 1]

-----------------------------------------------------------------------------
(* httpclient: error values, handleRequestError and DoRequest *)

\* An error value: its dynamic type, and what its methods answer.
GoError(dyn, op, inner, timeout) ==
    [dyn |-> dyn, Op |-> op, Inner |-> inner, Timeout |-> timeout]

\* http.Client.Do returns every failure wrapped in a *url.Error, which
\* implements net.Error; http.NewRequestWithContext returns a *url.Error for
\* an unparsable URL and a plain error for an invalid method.
DoErrors ==
    { GoError("URLError", "Get", "dial tcp: connect: connection refused", FALSE),
      GoError("URLError", "Get", "context deadline exceeded", TRUE),
      GoError("URLError", "Get", "no such host", FALSE) }

NewRequestErrors ==
    { GoError("URLError", "parse", "missing protocol scheme", FALSE),
      GoError("Plain", "", "invalid method", FALSE) }

\* Reading the response body fails with the transport's error, or, when the
\* client's Timeout expires during the read, with an *http.httpError whose
\* Timeout() is true.
BodyErrors ==
    { GoError("Plain", "", "unexpected EOF", FALSE),
      GoError("HTTPError", "", "Client.Timeout while reading body", TRUE) }

\* http.Client.Do's error for a dial that the peer refused.
ConnectionRefused ==
    GoError("URLError", "Get", "dial tcp: connect: connection refused", FALSE)

ImplementsNetError(e) == e.dyn \in {"URLError", "OpError", "HTTPError"}

ErrorStatus(e) ==
    IF e.dyn = "OpError"
    THEN IF e.Op = "dial" /\ e.Inner = "connection refused"
         THEN StatusServiceUnavailable
         ELSE StatusNetworkAuthenticationRequired
    ELSE IF ImplementsNetError(e)
    THEN IF e.Timeout
         THEN StatusRequestTimeout
         ELSE StatusNetworkAuthenticationRequired
    ELSE StatusInternalServerError

ErrorBody(e) ==
    IF e.dyn = "OpError"
    THEN IF e.Op = "dial" /\ e.Inner = "connection refused"
         THEN <<"Connection", "refused">>
         ELSE <<"Network", "error:", e.Inner>>
    ELSE IF ImplementsNetError(e)
    THEN IF e.Timeout
         THEN <<"Request", "timed", "out">>
         ELSE <<"Network", "error:", e.Inner>>
    ELSE <<"An", "unexpected", "error", "occurred">>

handleRequestError(e, url, method, duration) ==
    [resp |-> [Body |-> ErrorBody(e), StatusCode |-> ErrorStatus(e),
               URL |-> url, Method |-> method, Duration |-> duration,
               TCPHandshakeLatency |-> 0, TLSHandshakeLatency |-> 0,
               DNSLookupLatency |-> 0],
     err |-> NoValue,
     emitted |-> << collectMetricsWithLatencies(url, method, 1, 0, 0,
                        ErrorStatus(e), duration, 0, 0, 0) >>]

\* What the network does to one request: the environment's part of DoRequest.
Outcome(kind, e, status, duration, tcp, tls, dns, headers, bodyLen) ==
    [kind |-> kind, err |-> e, status |-> status, duration |-> duration,
     tcp |-> tcp, tls |-> tls, dns |-> dns, headers |-> headers,
     bodyLen |-> bodyLen]

\* The request body is a reader: nil for get and delete, the script's string
\* for post and put.  A transport that sent the request has read it to its end.
NilBody == [isNil |-> TRUE, len |-> 0]

StringBody(n) == [isNil |-> FALSE, len |-> n]

UnreadAfterDo(body) == 0

ReqHeadersSize == 10 + 30 + 4

DoRequest(url, method, body, o) ==
    IF o.kind = "newreq_err" THEN handleRequestError(o.err, url, method, 0)
    ELSE IF o.kind = "do_err"
    THEN handleRequestError(o.err, url, method, o.duration)
    ELSE IF o.kind = "body_err"
    THEN [resp |-> ZeroHttpResponse,
          err |-> o.err,
          emitted |-> <<>>]
    ELSE LET bytesReceived == o.headers + o.bodyLen
             bytesSent == ReqHeadersSize
                          + (IF body.isNil THEN 0 ELSE UnreadAfterDo(body))
             httpResp == [Body |-> <<"body">>, StatusCode |-> o.status,
                          URL |-> url, Method |-> method,
                          Duration |-> o.duration,
                          TCPHandshakeLatency |-> o.tcp,
                          TLSHandshakeLatency |-> o.tls,
                          DNSLookupLatency |-> o.dns]
         IN  [resp |-> httpResp,
              err |-> NoValue,
              emitted |-> << collectMetricsWithLatencies(url, method, 0,
                                 bytesReceived, bytesSent, o.status,
                                 o.duration, o.tcp, o.tls, o.dns) >>]

(* httpclient: the package-level HttpRequest *)

\* HttpResponse{} of the package that declares HttpRequest
ZeroHttpRequestResponse ==
    [Body |-> <<"">>, StatusCode |-> 0, URL |-> <<"">>, Method |-> <<"">>,
     Duration |-> 0, TCPHandshakeLatency |-> 0, DNSLookupLatency |-> 0]

\* The record HttpRequest builds: one request with its status and latencies.
HttpRequestMetrics(url, method, bytesReceived, bytesSent, statusCode, duration, tcp, dns) ==
    [key |-> Sprintf2(method, url), URL |-> url, Method |-> method,
     Requests |-> 1, TotalDuration |-> duration,
     TotalResponseTime |-> duration, TotalBytesReceived |-> bytesReceived,
     TotalBytesSent |-> bytesSent, StatusCodeCounts |-> (statusCode :> 1),
     ResponseTimes |-> duration, TCPHandshakeLatency |-> tcp,
     DNSLookupLatency |-> dns]

HttpRequestReturnsSynthetic(url, method, body, o) ==
    LET r == DoRequest(url, method, NilBody, o)
    IN  [resp |-> [f \in DOMAIN ZeroHttpRequestResponse |-> r.resp[f]],
         err |-> r.err, emitted |-> <<>>]

\* HttpRequest(url, method, body, metricsChannel): every failure, of
\* NewRequest, of client.Do and of io.ReadAll, returns HttpResponse{} and the
\* error and sends nothing; a response yields one record.
HttpRequest(url, method, body, o) ==
    IF o.kind \in {"newreq_err", "do_err", "body_err"}
    THEN [resp |-> ZeroHttpRequestResponse, err |-> o.err, emitted |-> <<>>]
    ELSE [resp |-> [Body |-> <<"body">>, StatusCode |-> o.status,
                    URL |-> url, Method |-> method, Duration |-> o.duration,
                    TCPHandshakeLatency |-> o.tcp,
                    DNSLookupLatency |-> o.dns],
          err |-> NoValue,
          \* len(req.URL.String()), counted in words
          emitted |-> << HttpRequestMetrics(url, method, o.bodyLen, Len(url),
                             o.status, o.duration, o.tcp, o.dns) >>]

-----------------------------------------------------------------------------
(* moduleloader: the response object handed to the script *)

\* createResponseObject(resp, err, metricsChan).assertStatus(expectedStatus):
\* the records it hands to SendMetrics.
assertStatus(resp, expectedStatus) ==
    IF resp.StatusCode # expectedStatus
    THEN << EndpointMetrics(Sprintf2(resp.Method, resp.URL), "ERROR",
                            resp.URL, resp.Method, (resp.StatusCode :> 1),
                            0, 0, 0, 0, FALSE, 0, 0, 1) >>
    ELSE <<>>

groupStartSendsNothing(isNil, name, duration) == <<>>

\* group.start(name, fn), after fn has returned: the records it hands to
\* SendMetrics.  fn's result and error are not looked at; the record is sent
\* if metricsChan != nil.
groupStart(isNil, name, duration) ==
    IF ~isNil THEN << CollectGroupMetrics(name, duration) >> ELSE <<>>

\* The object http.get returns to the script.
createResponseObject(resp, err) ==
    [response |-> resp, error |-> err, hasAssertStatus |-> TRUE]

\* One call of obj.assertStatus(expectedStatus): the records it sends, the
\* object it returns (a map with "response" and "error" only), and whether
\* it panics.
assertStatusCall(obj, expectedStatus) ==
    [emitted |-> assertStatus(obj.response, expectedStatus),
     ret |-> [response |-> obj.response, error |-> obj.error,
              hasAssertStatus |-> FALSE],
     panicked |-> FALSE]

-----------------------------------------------------------------------------
(* metricsprocessor: the aggregate map and the merge of one record *)

\* tdigest.Add(x, 1): the sketch is modelled by the bag of its samples.
TDigestAdd(d, x) == d (+) SetToBag({x})

TDigestCount(d) == BagCardinality(d)

initializeNewMetric(m) ==
    [ResponseTimesTDigest |->
         TDigestAdd(EmptyBag, Milliseconds(m.ResponseTime)),
     TCPHandshakeLatencyTDigest |->
         TDigestAdd(EmptyBag, Milliseconds(m.TCPHandshakeLatency)),
     DNSLookupLatencyTDigest |->
         TDigestAdd(EmptyBag, Milliseconds(m.DNSLookupLatency)),
     TLSHandshakeLatencyTDigest |->
         TDigestAdd(EmptyBag, Milliseconds(m.TLSHandshakeLatency)),
     TotalRequests |-> 1,
     TotalResponseTime |-> m.ResponseTime,
     TotalBytesReceived |-> m.BytesReceived,
     TotalBytesSent |-> m.BytesSent,
     TotalErrors |-> m.Errors,
     StatusCodeCounts |-> EmptyMap,
     Type |-> m.Type,
     TotalCheckPassed |-> IF m.CheckResult THEN 1 ELSE 0,
     TotalCheckFailed |-> IF m.CheckResult THEN 0 ELSE 1]

mergeStatusCodeCountsLost(stored, new) == stored

\* for statusCode, count := range newMetric.StatusCodeCounts { stored[statusCode] += count }
mergeStatusCodeCounts(stored, new) ==
    [c \in DOMAIN stored \cup DOMAIN new |->
        (IF c \in DOMAIN stored THEN stored[c] ELSE 0)
        + (IF c \in DOMAIN new THEN new[c] ELSE 0)]

mergeTDigestsPositiveOnly(a, m) ==
    [a EXCEPT
       !.ResponseTimesTDigest =
           IF Milliseconds(m.ResponseTime) > 0
           THEN TDigestAdd(@, Milliseconds(m.ResponseTime)) ELSE @,
       !.TCPHandshakeLatencyTDigest =
           IF Milliseconds(m.TCPHandshakeLatency) > 0
           THEN TDigestAdd(@, Milliseconds(m.TCPHandshakeLatency)) ELSE @,
       !.DNSLookupLatencyTDigest =
           IF Milliseconds(m.DNSLookupLatency) > 0
           THEN TDigestAdd(@, Milliseconds(m.DNSLookupLatency)) ELSE @,
       !.TLSHandshakeLatencyTDigest =
           IF Milliseconds(m.TLSHandshakeLatency) > 0
           THEN TDigestAdd(@, Milliseconds(m.TLSHandshakeLatency)) ELSE @]

mergeTDigests(a, m) ==
    [a EXCEPT
       !.ResponseTimesTDigest = TDigestAdd(@, Milliseconds(m.ResponseTime)),
       !.TCPHandshakeLatencyTDigest =
           IF Milliseconds(m.TCPHandshakeLatency) > 0
           THEN TDigestAdd(@, Milliseconds(m.TCPHandshakeLatency)) ELSE @,
       !.DNSLookupLatencyTDigest =
           IF Milliseconds(m.DNSLookupLatency) > 0
           THEN TDigestAdd(@, Milliseconds(m.DNSLookupLatency)) ELSE @,
       !.TLSHandshakeLatencyTDigest =
           IF Milliseconds(m.TLSHandshakeLatency) > 0
           THEN TDigestAdd(@, Milliseconds(m.TLSHandshakeLatency)) ELSE @]

mergeMetricsErrorsNotAdded(a, m) ==
    mergeTDigests(
      [a EXCEPT
         !.TotalRequests = @ + 1,
         !.TotalResponseTime = @ + m.ResponseTime,
         !.TotalBytesReceived = @ + m.BytesReceived,
         !.TotalBytesSent = @ + m.BytesSent,
         !.TotalCheckPassed = IF m.CheckResult THEN @ + 1 ELSE @,
         !.TotalCheckFailed = IF m.CheckResult THEN @ ELSE @ + 1,
         !.StatusCodeCounts = mergeStatusCodeCounts(@, m.StatusCodeCounts)],
      m)

mergeMetrics(a, m) ==
    mergeTDigests(
      [a EXCEPT
         !.TotalRequests = @ + 1,
         !.TotalResponseTime = @ + m.ResponseTime,
         !.TotalBytesReceived = @ + m.BytesReceived,
         !.TotalBytesSent = @ + m.BytesSent,
         !.TotalErrors = @ + m.Errors,
         !.TotalCheckPassed = IF m.CheckResult THEN @ + 1 ELSE @,
         !.TotalCheckFailed = IF m.CheckResult THEN @ ELSE @ + 1,
         !.StatusCodeCounts = mergeStatusCodeCounts(@, m.StatusCodeCounts)],
      m)

processEndpointMetricReplaces(map, key, m) ==
    (key :> initializeNewMetric(m)) @@ map

processEndpointMetric(map, key, m) ==
    IF key \notin DOMAIN map
    THEN (key :> initializeNewMetric(m)) @@ map
    ELSE [map EXCEPT ![key] = mergeMetrics(@, m)]

processMetricsTwice(map, m) ==
    processEndpointMetric(processEndpointMetric(map, m.key, m), m.key, m)

\* A Metrics value carries exactly one key in every constructor of the code.
processMetrics(map, m) == processEndpointMetric(map, m.key, m)

-----------------------------------------------------------------------------
(* vmhandler: the runtime pool *)

NewVMPoolOneShort(size) == [i \in 1..(size - 1) |-> i]

\* make(chan *goja.Runtime, size) filled with size fresh runtimes.
NewVMPool(size) == [i \in 1..size |-> i]

VMPoolGetKeepsRuntime(p) == [vm |-> Head(p), pool |-> p]

\* <-p.pool (the caller waits while the channel is empty)
VMPoolGet(p) == [vm |-> Head(p), pool |-> Tail(p)]

\* p.pool <- vm
VMPoolPutLosesRuntime(p, r) == p

VMPoolPut(p, r) == Append(p, r)

(* vmhandler: the entry point of an iteration *)

\* What a script can leave in module.exports, and in its property "default".
ExportKinds == {"function", "object", "primitive", "nullish"}

DefaultKinds == {"absent", "function", "object", "undefined"}

\* null and undefined have no properties.
ModuleShapes ==
    { m \in [exports : ExportKinds, default : DefaultKinds] :
        m.exports = "nullish" => m.default = "absent" }

\* The module of the scripts of the run: exports.default = function () {...}
RunModule == [exports |-> "object", default |-> "function"]

\* The result of one ExecuteExportedFunction: the functions it called, the
\* "Error executing ... export function" lines it printed, the other line it
\* printed, and whether it returned.
EntryResult(called, printed, notice, returns) ==
    [called |-> called, printed |-> printed, notice |-> notice,
     returns |-> returns]

ExecuteExportedFunctionCallsBoth(mod, thrown) ==
    EntryResult((IF mod.exports = "function" THEN <<"exports">> ELSE <<>>)
                \o (IF mod.default = "function" THEN <<"default">> ELSE <<>>),
                IF thrown THEN 1 ELSE 0, "", TRUE)

\* ExecuteExportedFunction(vm, module): module.exports is called if it is a
\* function; else its property "default" is looked up with ToObject(vm).Get,
\* which panics for null and undefined, and is called if it is a function.
\* When the function called returns an exception, one line is printed and
\* the call returns normally.
ExecuteExportedFunction(mod, thrown) ==
    IF mod.exports = "function"
    THEN EntryResult(<<"exports">>, IF thrown THEN 1 ELSE 0, "", TRUE)
    ELSE IF mod.exports = "nullish"
    THEN EntryResult(<<>>, 0, "", FALSE)
    ELSE IF mod.default # "absent"
    THEN IF mod.default = "function"
         THEN EntryResult(<<"default">>, IF thrown THEN 1 ELSE 0, "", TRUE)
         ELSE EntryResult(<<>>, 0, "Default export is not a function.", TRUE)
    ELSE EntryResult(<<>>, 0, "No executable export found.", TRUE)

-----------------------------------------------------------------------------
(* The run: executor, virtual users, aggregator, signal handler *)

Users == 1..MaxUsers

\* What the config probe can capture: the script sets the iterations or the
\* duration (or neither), and the number of users.
Configs ==
    { c \in [Iterations : 0..MaxIterations, RampUpRate : {0},
             ConcurrentUsers : 0..MaxUsers, Duration : 0..MaxDuration] :
        c.Iterations = 0 \/ c.Duration = 0 }

\* make(chan metrics.Metrics, vmConfig.ConcurrentUsers*5)
ChannelCapacity == config.ConcurrentUsers * QueueFactor

\* What the network answers to the requests of the run.
RunOutcomes ==
    { Outcome("ok", NoValue, 200, 2, 0, 0, 0, 0, 0),
      Outcome("ok", NoValue, 404, 2, 0, 0, 0, 0, 0),
      Outcome("body_err", GoError("Plain", "", "unexpected EOF", FALSE),
              200, 2, 0, 0, 0, 0, 0) }

RunURL == <<"/a">>

RunMethod == <<"GET">>

RunGroup == <<"g">>

RunGroupDuration == {4}

RECURSIVE SendAll(_, _, _)
\* SendMetrics applied to each record of recs in turn.
SendAll(q, capacity, recs) ==
    IF recs = <<>> THEN [queue |-> q, sent |-> 0, lost |-> 0, printed |-> 0]
    ELSE LET one == SendMetrics(q, capacity, FALSE, Head(recs))
             rest == SendAll(one.queue, capacity, Tail(recs))
         IN  [queue |-> rest.queue,
              sent |-> rest.sent + (IF one.sent THEN 1 ELSE 0),
              lost |-> rest.lost + (IF one.sent THEN 0 ELSE 1),
              printed |-> rest.printed + one.printed]

\* The script of virtual user v hands recs to SendMetrics.
Emit(v, recs) ==
    LET r == SendAll(queue, ChannelCapacity, recs)
    IN  /\ queue' = r.queue
        /\ accepted' = accepted + r.sent
        /\ dropped' = dropped + r.lost
        /\ dropLines' = [dropLines EXCEPT ![v] = @ + r.printed]

\* What no step of a run changes: the results of the calls studied alone.
callVars == <<rampGap, module, entry, lastHttpRequest>>

runVars == <<config, lastCall, mergedLog, callVars>>

vuVars == <<vuPc, vm, calls, remaining, topFailed, configWrites, lastResp>>

mainVars == <<mainPc, spawned>>

sigVars == <<sigPc, reportCalls, pendingAtSignal>>

chanVars == <<queue, accepted, dropped, dropLines>>

\* The state in which main is at position m and the aggregator at position a,
\* with configuration c and no virtual user started.
InitState(c, m, a) ==
    /\ config = c
    /\ pool = NewVMPool(c.ConcurrentUsers)
    /\ vuPc = [v \in Users |-> "idle"]
    /\ vm = [v \in Users |-> 0]
    /\ calls = [v \in Users |-> 0]
    /\ remaining = [v \in Users |-> 0]
    /\ topFailed = [v \in Users |-> FALSE]
    /\ configWrites = [v \in Users |-> 0]
    /\ lastResp = [v \in Users |-> ZeroHttpResponse]
    /\ queue = <<>>
    /\ closed = FALSE
    /\ MetricsMap = EmptyMap
    /\ aggPc = a
    /\ mainPc = m
    /\ spawned = 0
    /\ waitGroup = 0
    /\ sigPc = "waiting"
    /\ exited = FALSE
    /\ reportCalls = 0
    /\ accepted = 0
    /\ dropped = 0
    /\ lastCall = NoValue
    /\ mergedLog = <<>>
    /\ logged = 0
    /\ pendingAtSignal = 0
    /\ dropLines = [v \in Users |-> 0]
    /\ rampGap = 0
    /\ module = RunModule
    /\ entry = NoValue
    /\ lastHttpRequest = NoValue

\* The state after setupVM, make(chan ...), startMetricsCollection and
\* NewVMPool, for the captured configuration c.
InitRun(c) == InitState(c, "spawn", "running")

Init == \E c \in Configs : InitRun(c)

(* executeTestScripts and executeScript *)

\* waitGroup.Add(1); go vmhandler.RunScriptWithPool(...)
MainSpawn ==
    /\ ~exited /\ mainPc = "spawn" /\ spawned < config.ConcurrentUsers
    /\ spawned' = spawned + 1
    /\ waitGroup' = waitGroup + 1
    /\ vuPc' = [vuPc EXCEPT ![spawned + 1] = "get"]
    /\ mainPc' = IF config.RampUpRate > 0 THEN "rampsleep" ELSE "spawn"
    /\ UNCHANGED <<runVars, logged, pool, vm, calls, remaining, topFailed, configWrites, lastResp,
                   chanVars, closed, MetricsMap, aggPc, sigVars, exited>>

RampUpSleepNone(rate) == 0

\* time.Duration(1000/config.RampUpRate) * time.Millisecond, in microseconds:
\* the quotient is an integer division.
RampUpSleep(rate) == (MillisPerSecond \div rate) * MicrosPerMilli

\* What passes between two spawns besides the sleep, in microseconds: the
\* spawn itself and the lateness of the timer.
SpawnOverheads == {20, 1000}

\* if config.RampUpRate > 0 { time.Sleep(...) }, back to the head of the loop
MainRampSleep ==
    /\ ~exited /\ mainPc = "rampsleep"
    /\ \E o \in SpawnOverheads :
         rampGap' = RampUpSleep(config.RampUpRate) + o
    /\ mainPc' = "spawn"
    /\ UNCHANGED <<config, lastCall, mergedLog, module, entry, lastHttpRequest,
                   logged, pool, vuVars, chanVars, closed, MetricsMap, aggPc,
                   spawned, waitGroup, sigVars, exited>>

WaitGroupDoneEarly == TRUE

WaitGroupDoneAtOne == waitGroup <= 1

\* waitGroup.Wait() returns
WaitGroupDone == waitGroup = 0

MainWait ==
    /\ ~exited /\ mainPc = "spawn" /\ spawned = config.ConcurrentUsers
    /\ WaitGroupDone
    /\ mainPc' = "close"
    /\ UNCHANGED <<runVars, logged, pool, vuVars, chanVars, closed, MetricsMap, aggPc,
                   spawned, waitGroup, sigVars, exited>>

\* close(metricsChannel)
MainClose ==
    /\ ~exited /\ mainPc = "close"
    /\ closed' = TRUE
    /\ mainPc' = "aggwait"
    /\ UNCHANGED <<runVars, logged, pool, vuVars, chanVars, MetricsMap, aggPc,
                   spawned, waitGroup, sigVars, exited>>

\* metricsWaitGroup.Wait() returns
MainAggWait ==
    /\ ~exited /\ mainPc = "aggwait" /\ aggPc = "done"
    /\ mainPc' = "report"
    /\ UNCHANGED <<runVars, logged, pool, vuVars, chanVars, closed, MetricsMap, aggPc,
                   spawned, waitGroup, sigVars, exited>>

\* report.GenerateReport(&metricsprocessor.MetricsMap) is entered
MainReport ==
    /\ ~exited /\ mainPc = "report"
    /\ mainPc' = "reporting"
    /\ reportCalls' = reportCalls + 1
    /\ UNCHANGED <<runVars, logged, pool, vuVars, chanVars, closed, MetricsMap,
                   aggPc, spawned, waitGroup, sigPc, pendingAtSignal, exited>>

\* GenerateReport returns, executeScript returns, main returns
MainReturn ==
    /\ ~exited /\ mainPc = "reporting"
    /\ mainPc' = "returned"
    /\ exited' = TRUE
    /\ UNCHANGED <<runVars, logged, pool, vuVars, chanVars, closed, MetricsMap, aggPc,
                   spawned, waitGroup, sigVars>>

(* The signal-handler goroutine of main *)

\* <-signalChan
Interrupt ==
    /\ ~exited /\ sigPc = "waiting"
    /\ sigPc' = "signalled"
    /\ pendingAtSignal' = Len(queue)
    /\ UNCHANGED <<runVars, logged, pool, vuVars, chanVars, closed, MetricsMap,
                   aggPc, mainVars, waitGroup, reportCalls, exited>>

\* report.GenerateReport(&metricsprocessor.MetricsMap) is entered
SigReport ==
    /\ ~exited /\ sigPc = "signalled"
    /\ sigPc' = "reporting"
    /\ reportCalls' = reportCalls + 1
    /\ UNCHANGED <<runVars, logged, pool, vuVars, chanVars, closed, MetricsMap,
                   aggPc, mainVars, waitGroup, pendingAtSignal, exited>>

\* os.Exit(0)
SigExit ==
    /\ ~exited /\ sigPc = "reporting"
    /\ sigPc' = "exited"
    /\ exited' = TRUE
    /\ UNCHANGED <<runVars, logged, pool, vuVars, chanVars, closed, MetricsMap,
                   aggPc, mainVars, waitGroup, reportCalls, pendingAtSignal>>

(* GatherMetrics *)

\* for metric := range metricsChannel { processMetrics(metric) }
AggReceive ==
    /\ ~exited /\ aggPc = "running" /\ queue # <<>>
    /\ MetricsMap' = processMetrics(MetricsMap, Head(queue))
    /\ queue' = Tail(queue)
    /\ pendingAtSignal' = IF pendingAtSignal > 0 THEN pendingAtSignal - 1 ELSE 0
    /\ UNCHANGED <<runVars, logged, pool, vuVars, accepted, dropped, dropLines,
                   closed, aggPc, mainVars, waitGroup, sigPc, reportCalls,
                   exited>>

\* the range loop ends: the channel is closed and empty; metricsWaitGroup.Done()
AggReturn ==
    /\ ~exited /\ aggPc = "running" /\ queue = <<>> /\ closed
    /\ aggPc' = "done"
    /\ UNCHANGED <<runVars, logged, pool, vuVars, chanVars, closed, MetricsMap,
                   mainVars, waitGroup, sigVars, exited>>

(* RunScriptWithPool: one virtual user *)

othersVU == <<runVars, closed, MetricsMap, aggPc, mainVars, sigVars, exited>>

\* vm := vmPool.Get()
VUGet(v) ==
    /\ ~exited /\ vuPc[v] = "get" /\ pool # <<>>
    /\ LET g == VMPoolGet(pool)
       IN  /\ vm' = [vm EXCEPT ![v] = g.vm]
           /\ pool' = g.pool
    /\ vuPc' = [vuPc EXCEPT ![v] = "toplevel"]
    /\ UNCHANGED <<othersVU, logged, calls, remaining, topFailed, configWrites, lastResp, chanVars,
                   waitGroup>>

\* The calls of the setters of "Accelira/config" that the script's top level
\* makes: the one of setConcurrentUsers, without which no virtual user runs.
\* Every runtime of the pool was given the Config of the probe, so each call
\* writes that Config.
ScriptConfigWrites == 1

\* module := InitializeModuleExport(vm); vm.RunScript(...) runs the script's
\* top level again, its calls of the config setters included, as far as the
\* top level gets; on an error the function returns, else
\* endTime := time.Now().Add(config.Duration)
VUTopLevel(v) ==
    /\ ~exited /\ vuPc[v] = "toplevel"
    /\ \E failed \in BOOLEAN :
         IF failed
         THEN /\ topFailed' = [topFailed EXCEPT ![v] = TRUE]
              /\ vuPc' = [vuPc EXCEPT ![v] = "put"]
              /\ UNCHANGED remaining
              /\ \E w \in 0..ScriptConfigWrites :
                   configWrites' = [configWrites EXCEPT ![v] = @ + w]
         ELSE /\ remaining' = [remaining EXCEPT ![v] = config.Duration]
              /\ vuPc' = [vuPc EXCEPT ![v] = "loop"]
              /\ UNCHANGED topFailed
              /\ configWrites' =
                   [configWrites EXCEPT ![v] = @ + ScriptConfigWrites]
    /\ UNCHANGED <<othersVU, logged, pool, vm, calls, lastResp, chanVars, waitGroup>>

LoopContinuesPastDeadline(v) == TRUE

\* time.Now().Before(endTime)
LoopContinues(v) == remaining[v] > 0

\* for time.Now().Before(endTime) { ExecuteExportedFunction(vm, module) }:
\* the test passes and the default export is called.  It either throws at
\* once, and the call returns to the loop, or reaches group.start.
VUCall(v, thrown) ==
    /\ ~exited /\ vuPc[v] = "loop"
    /\ LoopContinues(v)
    /\ SumValues(calls) < MaxCalls
    /\ calls' = [calls EXCEPT ![v] = @ + 1]
    /\ LET r == ExecuteExportedFunction(module, thrown)
       IN  /\ logged' = logged + r.printed
           /\ vuPc' = [vuPc EXCEPT ![v] =
                         IF thrown \/ r.called = <<>> THEN "loop" ELSE "http"]
    /\ UNCHANGED <<othersVU, pool, vm, remaining, topFailed, configWrites, lastResp,
                   chanVars, waitGroup>>

VULoopEnter(v) == VUCall(v, FALSE)

VUThrowAtTop(v) == VUCall(v, TRUE)

\* the script throws inside the function given to group.start: fn(nil, nil)
\* returns the exception as its error, which group.start does not look at
VUThrowInGroup(v) ==
    /\ ~exited /\ vuPc[v] \in {"http", "assert"}
    /\ vuPc' = [vuPc EXCEPT ![v] = "groupEndThrown"]
    /\ lastResp' = [lastResp EXCEPT ![v] = ZeroHttpResponse]
    /\ UNCHANGED <<othersVU, logged, pool, vm, calls, remaining, topFailed, configWrites,
                   chanVars, waitGroup>>

\* the test fails: the loop ends and the deferred calls run
VULoopExit(v) ==
    /\ ~exited /\ vuPc[v] = "loop"
    /\ ~LoopContinues(v)
    /\ vuPc' = [vuPc EXCEPT ![v] = "put"]
    /\ UNCHANGED <<othersVU, logged, pool, vm, calls, remaining, topFailed, configWrites, lastResp,
                   chanVars, waitGroup>>

\* http.get(url): client.DoRequest(url, "GET", nil, metricsChan)
VUHttp(v) ==
    /\ ~exited /\ vuPc[v] = "http"
    /\ \E o \in RunOutcomes :
         LET r == DoRequest(RunURL, RunMethod, NilBody, o)
         IN  /\ Emit(v, r.emitted)
             /\ lastResp' = [lastResp EXCEPT ![v] = r.resp]
    /\ vuPc' = [vuPc EXCEPT ![v] = "assert"]
    /\ UNCHANGED <<othersVU, logged, pool, vm, calls, remaining, topFailed, configWrites,
                   waitGroup>>

\* response.assertStatus(expected); the script drops the response
VUAssert(v) ==
    /\ ~exited /\ vuPc[v] = "assert"
    /\ \E expected \in ExpectedStatus :
         Emit(v, assertStatus(lastResp[v], expected))
    /\ lastResp' = [lastResp EXCEPT ![v] = ZeroHttpResponse]
    /\ vuPc' = [vuPc EXCEPT ![v] = "groupEnd"]
    /\ UNCHANGED <<othersVU, logged, pool, vm, calls, remaining, topFailed, configWrites,
                   waitGroup>>

\* group.start: fn has returned; the GROUP record is sent
VUGroupEnd(v) ==
    /\ ~exited /\ vuPc[v] \in {"groupEnd", "groupEndThrown"}
    /\ \E d \in RunGroupDuration :
         Emit(v, groupStart(FALSE, RunGroup, d))
    /\ vuPc' = [vuPc EXCEPT ![v] = "loop"]
    /\ UNCHANGED <<othersVU, logged, pool, vm, calls, remaining, topFailed, configWrites, lastResp,
                   waitGroup>>

\* group.start(name, function () {}) inside the function of the outer group:
\* one more GROUP record is sent and the script goes on where it was
VUInnerGroup(v) ==
    /\ ~exited /\ vuPc[v] \in {"http", "assert"}
    /\ accepted + dropped < MaxSends
    /\ \E d \in RunGroupDuration :
         Emit(v, groupStart(FALSE, RunGroup, d))
    /\ UNCHANGED <<othersVU, logged, pool, vuVars, waitGroup>>

\* defer vmPool.Put(vm)
VUPut(v) ==
    /\ ~exited /\ vuPc[v] = "put"
    /\ Len(pool) < config.ConcurrentUsers
    /\ pool' = VMPoolPut(pool, vm[v])
    /\ vm' = [vm EXCEPT ![v] = 0]
    /\ vuPc' = [vuPc EXCEPT ![v] = "wgdone"]
    /\ UNCHANGED <<othersVU, logged, calls, remaining, topFailed, configWrites, lastResp, chanVars,
                   waitGroup>>

\* defer wg.Done()
VUDone(v) ==
    /\ ~exited /\ vuPc[v] = "wgdone"
    /\ waitGroup' = waitGroup - 1
    /\ vuPc' = [vuPc EXCEPT ![v] = "done"]
    /\ UNCHANGED <<othersVU, logged, pool, vm, calls, remaining, topFailed, configWrites, lastResp,
                   chanVars>>

\* The wall clock advances by one unit: every deadline comes closer.
Tick ==
    /\ ~exited
    /\ \E v \in Users : remaining[v] > 0
    /\ remaining' = [v \in Users |->
                        IF remaining[v] > 0 THEN remaining[v] - 1 ELSE 0]
    /\ UNCHANGED <<othersVU, logged, pool, vuPc, vm, calls, topFailed, configWrites, lastResp,
                   chanVars, waitGroup>>

VUStep(v) ==
    \/ VUGet(v)
    \/ VUTopLevel(v)
    \/ VULoopEnter(v)
    \/ VULoopExit(v)
    \/ VUHttp(v)
    \/ VUAssert(v)
    \/ VUGroupEnd(v)
    \/ VUPut(v)
    \/ VUDone(v)

Next ==
    \/ MainSpawn
    \/ MainWait
    \/ MainClose
    \/ MainAggWait
    \/ MainReport
    \/ MainReturn
    \/ Interrupt
    \/ SigReport
    \/ SigExit
    \/ AggReceive
    \/ AggReturn
    \/ Tick
    \/ \E v \in Users : VUStep(v)

Spec == Init /\ [][Next]_vars

-----------------------------------------------------------------------------
(* The run under the scheduler's fairness: every goroutine that can take a *)
(* step eventually takes one, and time passes.  The interrupt is the       *)
(* environment's: it may never come.                                       *)

MainStep ==
    MainSpawn \/ MainWait \/ MainClose \/ MainAggWait \/ MainReport
    \/ MainReturn

FairSpec ==
    /\ Spec
    /\ WF_vars(MainStep)
    /\ WF_vars(AggReceive \/ AggReturn)
    /\ WF_vars(SigReport \/ SigExit)
    /\ WF_vars(Tick)
    /\ \A v \in Users : WF_vars(VUStep(v))

-----------------------------------------------------------------------------
(* The HTTP client alone: DoRequest on every input *)

LatencyTriples == { <<0, 0, 0>>, <<2, 1, 0>>, <<0, 2, 2>> }

Durations == {1, 2}

OkOutcomes ==
    { Outcome("ok", NoValue, st, d, l[1], l[2], l[3], 20, 13) :
        st \in ServerStatuses, d \in Durations, l \in LatencyTriples }

AllOutcomes ==
    OkOutcomes
    \cup { Outcome("do_err", e, 0, 2, 0, 0, 0, 0, 0) : e \in DoErrors }
    \cup { Outcome("newreq_err", e, 0, 0, 0, 0, 0, 0, 0) :
             e \in NewRequestErrors }
    \cup { Outcome("body_err", e, 200, 2, 0, 0, 0, 20, 0) : e \in BodyErrors }

\* get and delete pass nil, post and put pass strings.NewReader(body)
Bodies == { NilBody, StringBody(3) }

HttpCall ==
    \E url \in URLs, method \in Methods, body \in Bodies, o \in AllOutcomes :
        /\ lastCall' = [url |-> url, method |-> method, body |-> body,
                        outcome |-> o,
                        result |-> DoRequest(url, method, body, o),
                        assert |-> NoValue]
        /\ UNCHANGED <<config, pool, vuVars, chanVars, closed, MetricsMap,
                       aggPc, mainVars, waitGroup, sigVars, exited, mergedLog,
                       logged, callVars>>

\* The script calls assertStatus on the object the last request returned.
HttpAssert ==
    /\ lastCall # NoValue
    /\ lastCall.assert = NoValue
    /\ \E expected \in ServerStatuses :
         lastCall' =
           [lastCall EXCEPT !.assert =
              [expected |-> expected,
               result |-> assertStatusCall(
                            createResponseObject(lastCall.result.resp,
                                                 lastCall.result.err),
                            expected)]]
    /\ UNCHANGED <<config, pool, vuVars, chanVars, closed, MetricsMap,
                   aggPc, mainVars, waitGroup, sigVars, exited, mergedLog,
                   logged, callVars>>

ZeroConfig ==
    [Iterations |-> 0, RampUpRate |-> 0, ConcurrentUsers |-> 0, Duration |-> 0]

InitHttp == InitRun(ZeroConfig)

NextHttp == HttpCall \/ HttpAssert

SpecHttp == InitHttp /\ [][NextHttp]_vars

-----------------------------------------------------------------------------
(* The aggregator alone: processMetrics on every record the producers make *)

AggURL == <<"/a">>

AggMethod == <<"GET">>

AggDoRequests ==
    { DoRequest(AggURL, AggMethod, NilBody, o) :
        o \in { x \in AllOutcomes : x.duration = 2 } }

\* A check may be given any name, also one that reads like an HTTP key.
CheckNames == { <<"c">>, <<"GET", "/a">> }

AggRecords ==
    UNION { { r.emitted[i] : i \in 1..Len(r.emitted) } : r \in AggDoRequests }
    \cup UNION { { assertStatus(r.resp, e)[i] :
                     i \in 1..Len(assertStatus(r.resp, e)) } :
                 r \in AggDoRequests, e \in ExpectedStatus }
    \cup { CollectGroupMetrics(g, 4) : g \in GroupNames }
    \cup { CollectErrorMetrics(n, b) : n \in CheckNames, b \in BOOLEAN }

AggMerge ==
    /\ Len(mergedLog) < MaxMerged
    /\ \E m \in AggRecords :
         /\ MetricsMap' = processMetrics(MetricsMap, m)
         /\ mergedLog' = Append(mergedLog, m)
    /\ UNCHANGED <<config, pool, vuVars, chanVars, closed, aggPc, mainVars,
                   waitGroup, sigVars, exited, lastCall, logged, callVars>>

InitAgg == InitRun(ZeroConfig)

NextAgg == AggMerge

SpecAgg == InitAgg /\ [][NextAgg]_vars

-----------------------------------------------------------------------------
(* The config probe: CreateConfigVM runs the script's top level in a runtime *)
(* whose modules were set up with a nil metrics channel                      *)

probeFrame ==
    <<pool, vuVars, closed, MetricsMap, aggPc, spawned, waitGroup, sigVars,
      exited, mergedLog, logged, callVars>>

\* One SendMetrics(record, nil) of the probe.
ProbeSend(m) ==
    LET r == SendMetrics(queue, 0, TRUE, m)
    IN  /\ queue' = r.queue
        /\ accepted' = accepted + (IF r.sent THEN 1 ELSE 0)
        /\ dropped' = dropped + (IF r.sent THEN 0 ELSE 1)
        /\ UNCHANGED dropLines

\* The strings a script gives to setDuration: half a millisecond, nothing,
\* and one that time.ParseDuration rejects.
DurationStrings == {"500us", "0s", "soon"}

\* time.ParseDuration(s): the duration, 0 with an error for a string it
\* cannot parse.
ParseDuration(s) ==
    IF s = "500us" THEN [d |-> 1, err |-> FALSE]
    ELSE IF s = "0s" THEN [d |-> 0, err |-> FALSE]
    ELSE [d |-> 0, err |-> TRUE]

\* parsedDuration, _ := time.ParseDuration(duration); config.Duration = parsedDuration
setDuration(c, s) == [c EXCEPT !.Duration = ParseDuration(s).d]

\* config.setIterations(n), setConcurrentUsers(n), setDuration(d), setRampUpRate(n)
ProbeSetConfig ==
    /\ mainPc = "probe"
    /\ \/ \E n \in 0..MaxIterations : config' = [config EXCEPT !.Iterations = n]
       \/ \E n \in 0..MaxUsers : config' = [config EXCEPT !.ConcurrentUsers = n]
       \/ \E d \in DurationStrings : config' = setDuration(config, d)
    /\ UNCHANGED <<probeFrame, chanVars, lastCall, mainPc>>

\* http.get / http.post at the script's top level: createHTTPModule(nil)
ProbeHttp ==
    /\ mainPc = "probe"
    /\ dropped < MaxProbeSends
    /\ \E url \in URLs, method \in Methods, body \in Bodies, o \in AllOutcomes :
         LET r == DoRequest(url, method, body, o)
         IN  /\ lastCall' = [url |-> url, method |-> method, body |-> body,
                             outcome |-> o, result |-> r, assert |-> NoValue]
             /\ IF r.emitted = <<>>
                THEN UNCHANGED chanVars
                ELSE ProbeSend(r.emitted[1])
    /\ UNCHANGED <<probeFrame, config, mainPc>>

\* group.start(name, fn) at the top level: fn runs, and the record is not
\* handed to SendMetrics because metricsChan is nil
ProbeGroup ==
    /\ mainPc = "probe"
    /\ \E name \in GroupNames, d \in RunGroupDuration :
         LET recs == groupStart(TRUE, name, d)
         IN  IF recs = <<>>
             THEN UNCHANGED chanVars
             ELSE ProbeSend(recs[1])
    /\ UNCHANGED <<probeFrame, config, lastCall, mainPc>>

\* assert.check(response, {name: fn}) at the top level
ProbeCheck ==
    /\ mainPc = "probe"
    /\ dropped < MaxProbeSends
    /\ \E name \in CheckNames, result \in BOOLEAN :
         ProbeSend(CollectErrorMetrics(name, result))
    /\ UNCHANGED <<probeFrame, config, lastCall, mainPc>>

\* vm.RunScript returns: CreateConfigVM returns the configuration
ProbeReturn ==
    /\ mainPc = "probe"
    /\ mainPc' = "probed"
    /\ UNCHANGED <<probeFrame, config, chanVars, lastCall>>

InitProbe == InitState(ZeroConfig, "probe", "idle")

NextProbe ==
    ProbeSetConfig \/ ProbeHttp \/ ProbeGroup \/ ProbeCheck \/ ProbeReturn

SpecProbe == InitProbe /\ [][NextProbe]_vars

-----------------------------------------------------------------------------
(* The virtual users alone, running a script whose default export may     *)
(* throw: all of them have been started and main waits in waitGroup.Wait() *)

ThrowingConfigs ==
    { c \in Configs : c.ConcurrentUsers > 0 /\ c.Duration > 0 }

InitVU ==
    \E c \in ThrowingConfigs :
        /\ config = c
        /\ pool = NewVMPool(c.ConcurrentUsers)
        /\ vuPc = [v \in Users |->
                     IF v <= c.ConcurrentUsers THEN "get" ELSE "idle"]
        /\ vm = [v \in Users |-> 0]
        /\ calls = [v \in Users |-> 0]
        /\ remaining = [v \in Users |-> 0]
        /\ topFailed = [v \in Users |-> FALSE]
        /\ configWrites = [v \in Users |-> 0]
        /\ lastResp = [v \in Users |-> ZeroHttpResponse]
        /\ queue = <<>>
        /\ closed = FALSE
        /\ MetricsMap = EmptyMap
        /\ aggPc = "running"
        /\ mainPc = "spawn"
        /\ spawned = c.ConcurrentUsers
        /\ waitGroup = c.ConcurrentUsers
        /\ sigPc = "waiting"
        /\ exited = FALSE
        /\ reportCalls = 0
        /\ accepted = 0
        /\ dropped = 0
        /\ lastCall = NoValue
        /\ mergedLog = <<>>
        /\ logged = 0
        /\ pendingAtSignal = 0
        /\ dropLines = [v \in Users |-> 0]
        /\ rampGap = 0
        /\ module = RunModule
        /\ entry = NoValue
        /\ lastHttpRequest = NoValue

ThrowStep(v) == VUThrowAtTop(v) \/ VUThrowInGroup(v)

NextVU ==
    \/ \E v \in Users : VUStep(v)
    \/ \E v \in Users : ThrowStep(v)
    \/ Tick
    \/ AggReceive

SpecVU == InitVU /\ [][NextVU]_vars

-----------------------------------------------------------------------------
(* The virtual users alone, running a script that calls group.start again   *)
(* inside its group while the aggregator does not come to receive           *)

NextSend ==
    \/ \E v \in Users : VUStep(v)
    \/ \E v \in Users : VUInnerGroup(v)
    \/ Tick

SpecSend == InitVU /\ [][NextSend]_vars

-----------------------------------------------------------------------------
(* The ramp-up: main spawns the virtual users at the configured rate, and   *)
(* the virtual users find their deadline passed                             *)

RampRates == {0, 1, 3, 1000, 1001}

RampConfigs ==
    [Iterations : {0}, RampUpRate : RampRates, ConcurrentUsers : 1..MaxUsers,
     Duration : 0..MaxDuration]

InitRamp == \E c \in RampConfigs : InitRun(c)

RampUserStep(v) ==
    VUGet(v) \/ VUTopLevel(v) \/ VULoopExit(v) \/ VUPut(v) \/ VUDone(v)

NextRamp ==
    \/ MainSpawn
    \/ MainRampSleep
    \/ MainWait
    \/ Tick
    \/ \E v \in Users : RampUserStep(v)

SpecRamp == InitRamp /\ [][NextRamp]_vars

-----------------------------------------------------------------------------
(* The entry point alone: ExecuteExportedFunction on every module shape *)

entryFrame ==
    <<config, pool, vuVars, chanVars, closed, MetricsMap, aggPc, mainVars,
      waitGroup, sigVars, exited, lastCall, mergedLog, logged, rampGap,
      lastHttpRequest>>

\* The script assigns module.exports or its property "default".
ScriptSetsExports ==
    /\ \E m \in ModuleShapes : module' = m
    /\ UNCHANGED <<entryFrame, entry>>

\* One iteration: ExecuteExportedFunction(vm, module)
EntryCall ==
    /\ \E thrown \in BOOLEAN :
         entry' = [module |-> module, thrown |-> thrown,
                   result |-> ExecuteExportedFunction(module, thrown)]
    /\ UNCHANGED <<entryFrame, module>>

InitEntry == InitRun(ZeroConfig)

NextEntry == ScriptSetsExports \/ EntryCall

SpecEntry == InitEntry /\ [][NextEntry]_vars

-----------------------------------------------------------------------------
(* HttpRequest alone, on every input *)

\* client.Do's error for a URL without a scheme the transport knows.
UnsupportedScheme ==
    GoError("URLError", "Get", "unsupported protocol scheme", FALSE)

HttpRequestOutcomes ==
    AllOutcomes \cup { Outcome("do_err", UnsupportedScheme, 0, 2, 0, 0, 0, 0, 0) }

HttpRequestCall ==
    /\ \E url \in URLs, method \in Methods, body \in Bodies,
          o \in HttpRequestOutcomes :
         lastHttpRequest' = [url |-> url, method |-> method, body |-> body,
                             outcome |-> o,
                             result |-> HttpRequest(url, method, body, o)]
    /\ UNCHANGED <<config, pool, vuVars, chanVars, closed, MetricsMap, aggPc,
                   mainVars, waitGroup, sigVars, exited, lastCall, mergedLog,
                   logged, rampGap, module, entry>>

InitHttpRequest == InitRun(ZeroConfig)

NextHttpRequest == HttpRequestCall

SpecHttpRequest == InitHttpRequest /\ [][NextHttpRequest]_vars

-----------------------------------------------------------------------------
(* Properties *)

ActiveUsers == 1..config.ConcurrentUsers

\* The positions between vmPool.Get() and vmPool.Put(vm).
Holding ==
    {"toplevel", "loop", "http", "assert", "groupEnd", "groupEndThrown", "put"}

\* The positions at which the script's next operation sends a record.
Emitting == {"http", "assert", "groupEnd", "groupEndThrown"}

MergedCount ==
    SumOver([k \in DOMAIN MetricsMap |-> MetricsMap[k].TotalRequests],
            DOMAIN MetricsMap)

\* C1: with iterations = n > 0 and duration = 0, a virtual user whose script
\* top-level ran has called the default export exactly n times when it ends.
C1_IterationsAreRun ==
    \A v \in Users :
        (/\ config.Iterations > 0
         /\ config.Duration = 0
         /\ vuPc[v] = "done"
         /\ ~topFailed[v])
        => calls[v] = config.Iterations

\* C2: every DoRequest call hands exactly one HTTP_REQUEST record to
\* SendMetrics, on every return path.
C2_OneEmitPerRequest ==
    lastCall # NoValue =>
        /\ Len(lastCall.result.emitted) = 1
        /\ lastCall.result.emitted[1].Type = "HTTP_REQUEST"

\* C3: report generation reads the aggregate map only when the queue is
\* closed and GatherMetrics has returned, also after an interrupt.
C3_ReportReadsFrozenMap ==
    (mainPc = "reporting" \/ sigPc = "reporting")
        => (closed /\ aggPc = "done")

\* C4: report generation is called at most once in a run.
C4_ReportAtMostOnce == reportCalls <= 1

\* C5: no runtime is held by two virtual users, a held runtime is not in the
\* pool, and the runtimes checked out are as many as the virtual users
\* between their Get and their Put.
C5_PoolInvariant ==
    /\ \A v, w \in Users :
         (v # w /\ vm[v] # 0 /\ vm[w] # 0) => vm[v] # vm[w]
    /\ \A v \in Users : \A i \in 1..Len(pool) :
         vm[v] # 0 => pool[i] # vm[v]
    /\ \A v \in Users : vuPc[v] \in Holding => vm[v] \in ActiveUsers
    /\ config.ConcurrentUsers - Len(pool)
         = Cardinality({v \in Users : vuPc[v] \in Holding})

C5_TwoRuntimesOut ==
    \E v, w \in Users :
        /\ v # w
        /\ vuPc[v] \in Holding /\ vuPc[w] \in Holding
        /\ vm[v] # 0 /\ vm[w] # 0

\* C6: on the normal path the queue is closed only when every virtual user has
\* completed, and the report starts only when the aggregator has returned, the
\* queue is empty and as many records are merged as the queue accepted.
C6_CloseAfterUsersReportAfterDrain ==
    /\ closed =>
         /\ spawned = config.ConcurrentUsers
         /\ \A v \in ActiveUsers : vuPc[v] = "done"
    /\ mainPc \in {"reporting", "returned"} =>
         /\ aggPc = "done"
         /\ queue = <<>>
         /\ MergedCount = accepted

C6_ReportedAfterRecords ==
    /\ mainPc = "reporting"
    /\ accepted >= 2
    /\ MergedCount = accepted

\* C7: once the queue is closed the aggregator eventually returns, it returns
\* only when the queue is empty, and the map does not change after it returned.
C7_AggregatorTerminates ==
    /\ closed ~> (aggPc = "done")
    /\ [](aggPc = "done" => queue = <<>>)
    /\ [][aggPc = "done" => MetricsMap' = MetricsMap]_vars

\* C8: a virtual user about to send a record can always take its step; when
\* the queue is at capacity the step drops its records, leaves the queue as it
\* is and moves the virtual user on; and a run that dropped records ends.
C8_EmitNeverBlocks ==
    /\ [](\A v \in Users :
            (~exited /\ vuPc[v] \in Emitting) => ENABLED VUStep(v))
    /\ [][\A v \in Users :
            (/\ vuPc[v] \in Emitting
             /\ vuPc'[v] # vuPc[v]
             /\ Len(queue) = ChannelCapacity)
            => (/\ queue' = queue
                /\ accepted' = accepted
                /\ vuPc'[v] \in Emitting \cup {"loop"})]_vars
    /\ [](Len(queue) <= ChannelCapacity)
    /\ (dropped > 0) ~> exited

C8_DroppedAndCompleted ==
    /\ dropped > 0
    /\ mainPc = "returned"
    /\ sigPc = "waiting"

\* C9: for every HTTP aggregate, total_requests equals the sum of the values
\* of status_code_counts, the creating record included.
C9_RequestsEqualStatusCounts ==
    \A k \in DOMAIN MetricsMap :
        MetricsMap[k].Type = "HTTP_REQUEST" =>
            MetricsMap[k].TotalRequests
                = SumValues(MetricsMap[k].StatusCodeCounts)

MergedUnder(k) == SelectSeq(mergedLog, LAMBDA m : m.key = k)

CarriesOneStatus(m) == SumValues(m.StatusCodeCounts) = 1

PositiveSamples(seq, dim) == Len(SelectSeq(seq, LAMBDA m : m[dim] > 0))

\* C11: for every aggregate, the response-time sketch holds one sample per
\* merged record, and the TCP, DNS and TLS sketches hold one sample per merged
\* record whose latency in that dimension is strictly positive (the creating
\* record included).
C11_SketchSampleIffPositive ==
    \A k \in DOMAIN MetricsMap :
        /\ TDigestCount(MetricsMap[k].ResponseTimesTDigest)
             = Len(MergedUnder(k))
        /\ TDigestCount(MetricsMap[k].TCPHandshakeLatencyTDigest)
             = PositiveSamples(MergedUnder(k), "TCPHandshakeLatency")
        /\ TDigestCount(MetricsMap[k].DNSLookupLatencyTDigest)
             = PositiveSamples(MergedUnder(k), "DNSLookupLatency")
        /\ TDigestCount(MetricsMap[k].TLSHandshakeLatencyTDigest)
             = PositiveSamples(MergedUnder(k), "TLSHandshakeLatency")

\* C12: a request whose dial is refused is classified 503, on the record and
\* on the response, for the error that client.Do returns.
C12_ConnectionRefusedIs503 ==
    (/\ lastCall # NoValue
     /\ lastCall.outcome.kind = "do_err"
     /\ lastCall.outcome.err = ConnectionRefused)
    => /\ lastCall.result.resp.StatusCode = StatusServiceUnavailable
       /\ Len(lastCall.result.emitted) = 1
       /\ lastCall.result.emitted[1].StatusCodeCounts
            = (StatusServiceUnavailable :> 1)

\* The request exceeded the client's timeout: Do, or the read of the body,
\* failed with an error whose Timeout() is true.
TimedOut(o) == o.kind \in {"do_err", "body_err"} /\ o.err.Timeout

\* C13: a request that exceeds the client timeout yields exactly one record
\* with status 408 and the error flag set, and a response with status 408 and
\* no error; another network failure yields 511 and an unclassified error 500.
C13_TimeoutIs408 ==
    lastCall # NoValue =>
        LET o == lastCall.outcome
            r == lastCall.result
        IN  /\ TimedOut(o) =>
                 /\ Len(r.emitted) = 1
                 /\ r.emitted[1].StatusCodeCounts = (StatusRequestTimeout :> 1)
                 /\ r.emitted[1].Errors = 1
                 /\ r.resp.StatusCode = StatusRequestTimeout
                 /\ r.err = NoValue
            /\ (/\ o.kind \in {"do_err", "newreq_err"}
                /\ ImplementsNetError(o.err)
                /\ ~o.err.Timeout
                /\ o.err # ConnectionRefused) =>
                 /\ r.resp.StatusCode = StatusNetworkAuthenticationRequired
                 /\ r.emitted[1].StatusCodeCounts
                      = (StatusNetworkAuthenticationRequired :> 1)
            /\ (/\ o.kind \in {"do_err", "newreq_err"}
                /\ ~ImplementsNetError(o.err)) =>
                 /\ r.resp.StatusCode = StatusInternalServerError
                 /\ r.emitted[1].StatusCodeCounts
                      = (StatusInternalServerError :> 1)

\* C14: assertStatus(expected) never throws; on a mismatch it sends exactly
\* one error-flagged record under the request's key "METHOD URL" carrying the
\* observed status, on a match it sends nothing; and it returns the response.
C14_AssertStatusSoft ==
    (lastCall # NoValue /\ lastCall.assert # NoValue) =>
        LET resp == lastCall.result.resp
            a == lastCall.assert.result
        IN  /\ ~a.panicked
            /\ a.ret.response = resp
            /\ IF resp.StatusCode = lastCall.assert.expected
               THEN a.emitted = <<>>
               ELSE /\ Len(a.emitted) = 1
                    /\ a.emitted[1].Errors = 1
                    /\ a.emitted[1].StatusCodeCounts = (resp.StatusCode :> 1)
                    /\ a.emitted[1].key
                         = Sprintf2(lastCall.method, lastCall.url)

\* DoRequest got as far as client.Do: a request went to the network.
RequestIssued(call) == call # NoValue /\ call.outcome.kind # "newreq_err"

\* C15: during the config probe no network request is issued and no record
\* reaches the queue or the aggregate map; only the configuration changes.
C15_ProbeCallsAreNoOps ==
    mainPc \in {"probe", "probed"} =>
        /\ ~RequestIssued(lastCall)
        /\ queue = <<>>
        /\ accepted = 0
        /\ MetricsMap = EmptyMap

\* C16: in a duration-bounded run a virtual user starts an iteration only at
\* the top of the loop and only while the deadline has not been reached; an
\* iteration in flight is never cut short, whatever the clock says; and a
\* virtual user that finds the deadline reached leaves the loop for good.
C16_DeadlineCheckedAtTop ==
    [][\A v \in Users :
         /\ calls'[v] # calls[v] =>
              (vuPc[v] = "loop" /\ remaining[v] > 0)
         /\ (vuPc[v] \in Emitting /\ vuPc'[v] # vuPc[v]) =>
              vuPc'[v] \in Emitting \cup {"loop"}
         /\ (vuPc[v] = "loop" /\ remaining[v] = 0 /\ vuPc'[v] # vuPc[v]) =>
              (vuPc'[v] = "put" /\ calls'[v] = calls[v])
         /\ (vuPc[v] \in {"put", "wgdone", "done"}) => calls'[v] = calls[v]]_vars

C16_InFlightPastDeadline ==
    \E v \in Users :
        /\ config.Duration > 0
        /\ remaining[v] = 0
        /\ vuPc[v] = "groupEnd"
        /\ calls[v] >= 1

\* The step of virtual user v in which the script throws: at the top of the
\* default export, or inside the function given to group.start.
Threw(v) ==
    \/ vuPc[v] = "loop" /\ vuPc'[v] = "loop" /\ calls'[v] = calls[v] + 1
    \/ vuPc[v] \in {"http", "assert"} /\ vuPc'[v] = "groupEndThrown"

\* C17: an exception thrown in one call of the default export is caught and
\* logged and does not end the virtual user: it stays in its loop; and a
\* virtual user that has ended has returned its runtime and signalled.
C17_ExceptionCaughtAndLogged ==
    /\ [][\A v \in Users :
            Threw(v) => /\ logged' = logged + 1
                        /\ vuPc'[v] \in Emitting \cup {"loop"}]_vars
    /\ [](\A v \in Users : vuPc[v] = "done" => vm[v] = 0)
    /\ [](waitGroup = Cardinality({v \in ActiveUsers : vuPc[v] # "done"}))

GroupReturned == {"groupEnd", "groupEndThrown"}

\* C18: each group.start hands exactly one GROUP record keyed "group: NAME"
\* to SendMetrics, when its function has returned, also when the function
\* threw; and no GROUP record is sent at any other step.
C18_OneGroupRecordPerGroup ==
    /\ [][\A v \in Users :
            /\ (vuPc[v] \in GroupReturned /\ vuPc'[v] # vuPc[v]) =>
                 /\ vuPc'[v] = "loop"
                 /\ accepted' + dropped' = accepted + dropped + 1
                 /\ accepted' = accepted + 1 =>
                      /\ queue' = Append(queue, queue'[Len(queue')])
                      /\ queue'[Len(queue')].Type = "GROUP"
                      /\ queue'[Len(queue')].key
                           = Sprintf2(<<"group:">>, RunGroup)
            /\ (vuPc[v] \in {"http", "assert"} /\ vuPc'[v] # vuPc[v]) =>
                 vuPc'[v] \in {"assert"} \cup GroupReturned]_vars
    /\ [][(/\ Len(queue') > Len(queue)
           /\ queue'[Len(queue')].Type = "GROUP")
          => \E v \in Users :
               vuPc[v] \in GroupReturned /\ vuPc'[v] = "loop"]_vars

\* One call was made in all, its group function threw, and the only record
\* sent is the GROUP record.
C18_GroupRecordAfterThrow ==
    \E v \in Users :
        /\ calls[v] = 1
        /\ SumValues(calls) = 1
        /\ vuPc[v] = "loop"
        /\ accepted = 1
        /\ dropped = 0
        /\ logged = 0
        /\ \E d \in RunGroupDuration :
             queue = << CollectGroupMetrics(RunGroup, d) >>

\* C19: when the signal handler generates the report, every record that was
\* in the queue when the interrupt arrived has been merged.
C19_InterruptFlushesFirst ==
    sigPc \in {"reporting", "exited"} => pendingAtSignal = 0

\* The shape of a key: "METHOD URL" for a request, "group: NAME" for a group,
\* anything else is the name of a check.
IsHttpKey(k) == Len(k) = 2 /\ <<k[1]>> \in Methods /\ <<k[2]>> \in URLs

IsGroupKey(k) == Len(k) = 2 /\ k[1] = "group:"

\* The kind the key stands for; the code's name for the kind of a check is
\* "ERROR".
KindOfKey(k) ==
    IF IsGroupKey(k) THEN "GROUP"
    ELSE IF IsHttpKey(k) THEN "HTTP_REQUEST"
    ELSE "ERROR"

\* No check with a name that reads like an HTTP key was merged under k.
NoCheckUnder(k) ==
    \A i \in 1..Len(MergedUnder(k)) : MergedUnder(k)[i].Method # <<"ERROR">>

\* C20: the key determines the kind of the aggregate stored under it,
\* whichever record created the aggregate.
C20_KeyDeterminesKind ==
    \A k \in DOMAIN MetricsMap :
        (IsHttpKey(k) => NoCheckUnder(k))
            => MetricsMap[k].Type = KindOfKey(k)

C22_RampUpGapAtLeast ==
    /\ (config.RampUpRate > 0 /\ mainPc = "spawn" /\ spawned > 0) =>
         rampGap * config.RampUpRate >= MillisPerSecond * MicrosPerMilli
    /\ config.RampUpRate = 0 => (mainPc # "rampsleep" /\ rampGap = 0)

\* C22 as amended: for R > 0 the next virtual user is started less than one
\* millisecond short of 1000/R milliseconds after the previous one, and at
\* least 1000/R milliseconds after it when R divides 1000; for R = 0 main
\* does not sleep between spawns.
C22_RampUpGapAtLeastFloor ==
    /\ (config.RampUpRate > 0 /\ mainPc = "spawn" /\ spawned > 0) =>
         /\ (rampGap + MicrosPerMilli) * config.RampUpRate
              > MillisPerSecond * MicrosPerMilli
         /\ MillisPerSecond % config.RampUpRate = 0 =>
              rampGap * config.RampUpRate >= MillisPerSecond * MicrosPerMilli
    /\ config.RampUpRate = 0 => (mainPc # "rampsleep" /\ rampGap = 0)

C22_GapShortOfExact ==
    /\ config.RampUpRate > 0
    /\ MillisPerSecond % config.RampUpRate # 0
    /\ mainPc = "spawn"
    /\ spawned = 1
    /\ config.ConcurrentUsers = 2
    /\ rampGap * config.RampUpRate < MillisPerSecond * MicrosPerMilli

\* C23: in one iteration module.exports is called, once, if it is callable;
\* otherwise module.exports.default is called, once, if it is callable;
\* otherwise nothing is called.  Never are two functions called.
C23_EntryResolution ==
    entry # NoValue =>
        LET m == entry.module
            r == entry.result
        IN  /\ m.exports = "function" => r.called = <<"exports">>
            /\ (m.exports # "function" /\ m.default = "function") =>
                 r.called = <<"default">>
            /\ (m.exports # "function" /\ m.default # "function") =>
                 r.called = <<>>
            /\ Len(r.called) <= 1

C23_ExportsBeforeDefault ==
    /\ entry # NoValue
    /\ entry.module = [exports |-> "function", default |-> "function"]
    /\ entry.result.called = <<"exports">>

\* C24: NewVMPool(size) leaves a pool of exactly size idle runtimes, all
\* different and none held by a virtual user, for every size from 0 on.
C24_PoolHoldsSizeIdleRuntimes ==
    spawned = 0 =>
        /\ Len(pool) = config.ConcurrentUsers
        /\ \A i, j \in 1..Len(pool) : i # j => pool[i] # pool[j]
        /\ \A v \in Users : vm[v] = 0 /\ vuPc[v] = "idle"

C24_PoolOfSizeZero ==
    /\ config.ConcurrentUsers = 0
    /\ spawned = 0
    /\ mainPc = "spawn"
    /\ pool = <<>>

\* The request failed before a response was received: http.NewRequest or
\* client.Do returned the error.
FailsBeforeResponse(o) == o.kind \in {"newreq_err", "do_err"}

\* C25: HttpRequest on a request that fails before any response is received
\* returns the error and the zero response: status code 0 and empty body.
C25_HttpRequestFailureIsZeroResponse ==
    (lastHttpRequest # NoValue /\ FailsBeforeResponse(lastHttpRequest.outcome))
    => /\ lastHttpRequest.result.err # NoValue
       /\ lastHttpRequest.result.err = lastHttpRequest.outcome.err
       /\ lastHttpRequest.result.resp.StatusCode = 0
       /\ lastHttpRequest.result.resp.Body = <<"">>
       /\ lastHttpRequest.result.resp = ZeroHttpRequestResponse

C25_UrlWithoutScheme ==
    /\ lastHttpRequest # NoValue
    /\ lastHttpRequest.outcome.kind = "do_err"
    /\ lastHttpRequest.outcome.err = UnsupportedScheme
    /\ lastHttpRequest.result.resp.StatusCode = 0

\* C26: the configuration the config probe returns has iterations or duration
\* positive.
C26_IterationsOrDurationPositive ==
    mainPc = "probed" => (config.Iterations > 0 \/ config.Duration > 0)

RECURSIVE MergeAll(_, _)
\* The aggregate map after the records of seq have been processed in order.
MergeAll(map, seq) ==
    IF seq = <<>> THEN map
    ELSE MergeAll(processMetrics(map, Head(seq)), Tail(seq))

StatusCount(map, k, code) ==
    IF k \in DOMAIN map /\ code \in DOMAIN map[k].StatusCodeCounts
    THEN map[k].StatusCodeCounts[code]
    ELSE 0

RequestCount(map, k) == IF k \in DOMAIN map THEN map[k].TotalRequests ELSE 0

\* The record of a response with status code and no transport failure.
IsResponseRecord(m, code) ==
    /\ m.Type = "HTTP_REQUEST"
    /\ m.StatusCodeCounts = (code :> 1)
    /\ m.Errors = 0

\* The record assertStatus sends for a response with status code.
IsAssertRecord(m, code) ==
    /\ m.Type = "ERROR"
    /\ m.Method # <<"ERROR">>
    /\ m.StatusCodeCounts = (code :> 1)
    /\ m.Errors = 1

\* C27: when a get answered 404 and its assertStatus(200) are merged one
\* after the other under their key, the aggregate has two more records, its
\* count of 404 is one more than before them and its total of errors is at
\* least 1, on a fresh key and on a key that had earlier records.
C27_NotFoundThenAssert ==
    LET n == Len(mergedLog)
    IN  (/\ n >= 2
         /\ IsResponseRecord(mergedLog[n - 1], 404)
         /\ IsAssertRecord(mergedLog[n], 404)
         /\ mergedLog[n].key = mergedLog[n - 1].key)
        => LET k == mergedLog[n].key
               before == MergeAll(EmptyMap, SubSeq(mergedLog, 1, n - 2))
           IN  /\ RequestCount(MetricsMap, k) = RequestCount(before, k) + 2
               /\ StatusCount(MetricsMap, k, 404)
                    = StatusCount(before, k, 404) + 1
               /\ MetricsMap[k].TotalErrors >= 1

\* The number of records of seq whose error flag is set.
ErrorFlagged(seq) == Len(SelectSeq(seq, LAMBDA m : m.Errors > 0))

\* The records DoRequest sends for a response, whatever its status.
ResponseRecords ==
    { DoRequest(AggURL, AggMethod, NilBody, o).emitted[1] : o \in OkOutcomes }

\* C28: the total of errors of an aggregate is the number of records merged
\* under its key whose error flag is set, the creating record included; the
\* record of a response carries no error flag, whatever its status, and
\* merging it leaves the total of errors as it is.
C28_TotalErrorsCountsFlagged ==
    /\ [](\A k \in DOMAIN MetricsMap :
            MetricsMap[k].TotalErrors = ErrorFlagged(MergedUnder(k)))
    /\ [](\A i \in 1..Len(mergedLog) :
            mergedLog[i] \in ResponseRecords => mergedLog[i].Errors = 0)
    /\ [][(/\ Len(mergedLog') = Len(mergedLog) + 1
           /\ mergedLog'[Len(mergedLog')] \in ResponseRecords
           /\ mergedLog'[Len(mergedLog')].key \in DOMAIN MetricsMap)
          => LET k == mergedLog'[Len(mergedLog')].key
             IN  MetricsMap'[k].TotalErrors = MetricsMap[k].TotalErrors]_vars

C28_ErrorThenNotFound ==
    \E k \in DOMAIN MetricsMap :
        /\ Len(MergedUnder(k)) = 3
        /\ MergedUnder(k)[1].Errors = 1
        /\ IsResponseRecord(MergedUnder(k)[2], 404)
        /\ IsResponseRecord(MergedUnder(k)[3], 404)
        /\ MetricsMap[k].TotalErrors = 1

\* C29: for every HTTP or GROUP aggregate the response-time sketch holds as
\* many samples as total_requests.
C29_ResponseSketchCountIsRequests ==
    \A k \in DOMAIN MetricsMap :
        MetricsMap[k].Type \in {"HTTP_REQUEST", "GROUP"} =>
            TDigestCount(MetricsMap[k].ResponseTimesTDigest)
                = MetricsMap[k].TotalRequests

C29_ThreeSamples ==
    \E k \in DOMAIN MetricsMap :
        /\ MetricsMap[k].Type = "HTTP_REQUEST"
        /\ MetricsMap[k].TotalRequests = 3
        /\ TDigestCount(MetricsMap[k].ResponseTimesTDigest) = 3
        /\ \E i \in 2..3 : MergedUnder(k)[i].ResponseTime = 0

\* C30: no merged record changes the Type of an aggregate that exists.
C30_TypeImmutable ==
    [][\A k \in DOMAIN MetricsMap :
         /\ k \in DOMAIN MetricsMap'
         /\ MetricsMap'[k].Type = MetricsMap[k].Type]_vars

C30_OtherTypeMerged ==
    \E k \in DOMAIN MetricsMap :
        /\ Len(MergedUnder(k)) >= 2
        /\ MetricsMap[k].Type = MergedUnder(k)[1].Type
        /\ \E i \in 2..Len(MergedUnder(k)) :
             MergedUnder(k)[i].Type # MetricsMap[k].Type

\* C31: every record the queue accepted is in the queue or merged, exactly
\* once; and when the run has completed normally the records merged are as
\* many as the records accepted, which are the records handed to SendMetrics
\* less the records dropped, so never more than the records issued.
C31_Conservation ==
    /\ MergedCount + Len(queue) = accepted
    /\ mainPc \in {"reporting", "returned"} =>
         /\ MergedCount = accepted
         /\ MergedCount <= accepted + dropped

C31_SaturatedAndCompleted ==
    /\ mainPc = "reporting"
    /\ dropped >= 1
    /\ accepted = ChannelCapacity
    /\ MergedCount = accepted

\* The type of the record a virtual user sends from each position of its
\* script, and the position that follows.
TypeSentAt(pc) ==
    IF pc = "http" THEN "HTTP_REQUEST"
    ELSE IF pc = "assert" THEN "ERROR"
    ELSE "GROUP"

FollowingPosition(pc) ==
    IF pc = "http" THEN {"assert", "groupEndThrown"}
    ELSE IF pc = "assert" THEN {"groupEnd", "groupEndThrown"}
    ELSE {"loop"}

\* C32: the queue takes records at its tail only and the aggregator merges
\* its head only, so accepted records are merged in the order they were
\* sent; a virtual user sends the record of a request, then the record of
\* its assertStatus, then the record of the group, one step after the other;
\* hence, while nothing is dropped, the aggregate of a request key is created
\* by a request record, never by the assertStatus record that follows it.
C32_MergedInEmissionOrder ==
    /\ [][queue' # queue =>
            \/ /\ queue # <<>>
               /\ queue' = Tail(queue)
               /\ MetricsMap' = processMetrics(MetricsMap, Head(queue))
            \/ /\ Len(queue') > Len(queue)
               /\ SubSeq(queue', 1, Len(queue)) = queue
               /\ MetricsMap' = MetricsMap]_vars
    /\ [][MetricsMap' # MetricsMap => (queue # <<>> /\ queue' = Tail(queue))]_vars
    /\ [][\A v \in Users :
            (vuPc[v] \in Emitting /\ vuPc'[v] # vuPc[v]) =>
                /\ vuPc'[v] \in FollowingPosition(vuPc[v])
                /\ Len(queue') > Len(queue) =>
                     /\ Len(queue') = Len(queue) + 1
                     /\ vuPc'[v] # "groupEndThrown"
                     /\ queue'[Len(queue')].Type = TypeSentAt(vuPc[v])]_vars
    /\ [](dropped = 0 =>
            \A k \in DOMAIN MetricsMap :
                IsHttpKey(k) => MetricsMap[k].Type = "HTTP_REQUEST")

C32_RequestAndAssertBeforeGroup ==
    /\ config.ConcurrentUsers = 1
    /\ dropped = 0
    /\ accepted = 3
    /\ \E d \in RunGroupDuration : queue = << CollectGroupMetrics(RunGroup, d) >>
    /\ Sprintf2(RunMethod, RunURL) \in DOMAIN MetricsMap
    /\ MetricsMap[Sprintf2(RunMethod, RunURL)].Type = "HTTP_REQUEST"
    /\ MetricsMap[Sprintf2(RunMethod, RunURL)].TotalRequests = 2
    /\ MetricsMap[Sprintf2(RunMethod, RunURL)].TotalErrors = 1

\* C33: for a successful request with a request body, the bytes sent on the
\* record are the bytes of the request headers plus the full length of the
\* body.
C33_BytesSentIncludesBody ==
    (/\ lastCall # NoValue
     /\ lastCall.outcome.kind = "ok"
     /\ ~lastCall.body.isNil)
    => /\ Len(lastCall.result.emitted) = 1
       /\ lastCall.result.emitted[1].BytesSent
            = ReqHeadersSize + lastCall.body.len

\* The check records merged under key k: those CollectErrorMetrics built.
CheckRecordsUnder(k, passed) ==
    Len(SelectSeq(MergedUnder(k),
                  LAMBDA m : m.Method = <<"ERROR">> /\ m.CheckResult = passed))

\* C34: for every aggregate of the kind of checks, checks_passed is the
\* number of check records merged under its name with result true and
\* checks_failed the number with result false, the creating record included.
C34_CheckCountsMatchRecords ==
    \A k \in DOMAIN MetricsMap :
        MetricsMap[k].Type = "ERROR" =>
            /\ MetricsMap[k].TotalCheckPassed = CheckRecordsUnder(k, TRUE)
            /\ MetricsMap[k].TotalCheckFailed = CheckRecordsUnder(k, FALSE)

\* The fields of an aggregate that a request or a group gives a meaning to.
RequestFields(a) ==
    <<a.TotalRequests, a.TotalResponseTime, a.TotalBytesReceived,
      a.TotalBytesSent, a.StatusCodeCounts, a.ResponseTimesTDigest,
      a.TCPHandshakeLatencyTDigest, a.DNSLookupLatencyTDigest,
      a.TLSHandshakeLatencyTDigest>>

CheckFields(a) == <<a.TotalCheckPassed, a.TotalCheckFailed>>

\* C35: merging a request or group record into an aggregate leaves its check
\* counts as they are, and merging a check record leaves its request count,
\* byte totals, status counts and sketches as they are.
C35_MergeTouchesOwnFieldsOnly ==
    [][(/\ Len(mergedLog') = Len(mergedLog) + 1
        /\ mergedLog'[Len(mergedLog')].key \in DOMAIN MetricsMap)
       => LET m == mergedLog'[Len(mergedLog')]
              k == m.key
          IN  /\ m.Type \in {"HTTP_REQUEST", "GROUP"} =>
                   CheckFields(MetricsMap'[k]) = CheckFields(MetricsMap[k])
              /\ m.Method = <<"ERROR">> =>
                   RequestFields(MetricsMap'[k]) = RequestFields(MetricsMap[k])]_vars

\* The sequences that hold the elements of seq in another order.
Reorderings(seq) ==
    { [i \in 1..Len(seq) |-> seq[p[i]]] :
        p \in { q \in [1..Len(seq) -> 1..Len(seq)] :
                  \A i, j \in 1..Len(seq) : i # j => q[i] # q[j] } }

\* The counters of an aggregate and the number of samples of its sketches.
Counters(a) ==
    <<a.TotalRequests, a.TotalErrors, a.TotalBytesReceived, a.TotalBytesSent,
      a.StatusCodeCounts, a.TotalCheckPassed, a.TotalCheckFailed,
      TDigestCount(a.ResponseTimesTDigest),
      TDigestCount(a.TCPHandshakeLatencyTDigest),
      TDigestCount(a.DNSLookupLatencyTDigest),
      TDigestCount(a.TLSHandshakeLatencyTDigest)>>

\* C36: the counters of an aggregate and the sizes of its sketches are the
\* same in whatever order the records of its key are merged.
C36_OrderIndependent ==
    \A k \in DOMAIN MetricsMap :
        \A other \in Reorderings(MergedUnder(k)) :
            Counters(MergeAll(EmptyMap, other)[k]) = Counters(MetricsMap[k])

\* C37: nothing is sent on the record queue once it is closed: when the
\* channel is closed every virtual user has been started and has signalled
\* completion, none is at a position that sends, and no later step accepts
\* or drops a record.
C37_NoSendAfterClose ==
    /\ [](closed =>
            /\ spawned = config.ConcurrentUsers
            /\ waitGroup = 0
            /\ \A v \in ActiveUsers : vuPc[v] = "done"
            /\ \A v \in Users : vuPc[v] \notin Emitting)
    /\ [][closed =>
            /\ accepted' = accepted
            /\ dropped' = dropped
            /\ dropLines' = dropLines
            /\ Len(queue') <= Len(queue)]_vars

C37_ClosedWithRecordsPending ==
    /\ closed
    /\ config.ConcurrentUsers = MaxUsers
    /\ accepted >= 2
    /\ queue # <<>>

\* C38: unless the process is interrupted, the executor's wait returns, and
\* when it does every virtual user is done, none holds a runtime and all the
\* runtimes of the pool are back in it; a virtual user at the checkout always
\* finds a runtime in the pool, so its step is enabled.
C38_VirtualUsersTerminate ==
    /\ <>(\/ sigPc # "waiting"
          \/ /\ mainPc = "close"
             /\ \A v \in ActiveUsers : vuPc[v] = "done"
             /\ Len(pool) = config.ConcurrentUsers)
    /\ [](\A v \in Users :
            (~exited /\ vuPc[v] = "get") => (pool # <<>> /\ ENABLED VUGet(v)))
    /\ [](mainPc \notin {"spawn", "rampsleep"} =>
            /\ \A v \in ActiveUsers : vuPc[v] = "done" /\ vm[v] = 0
            /\ Len(pool) = config.ConcurrentUsers
            /\ waitGroup = 0)

C38_TopLevelFailedAndReturned ==
    /\ mainPc = "close"
    /\ config.ConcurrentUsers = MaxUsers
    /\ \E v \in ActiveUsers : topFailed[v] /\ calls[v] = 0
    /\ \E v \in ActiveUsers : ~topFailed[v] /\ calls[v] >= 1
    /\ Len(pool) = MaxUsers

\* C39: no virtual user writes the Config that the executor and the other
\* virtual users read while the run executes.
C39_NoVirtualUserWritesConfig ==
    \A v \in Users : configWrites[v] = 0

====
